---- MODULE Spec2Model ----
(***************************************************************************)
(* Model of tools/clean-up-css/css_utils.py: the selector extractor        *)
(* (get_css_classes), the usage extractor (expand_search_paths,            *)
(* get_used_classes), find_unused_classes, remove_unused_from_css and      *)
(* print_unused_analysis.                                                  *)
(*                                                                         *)
(* A text is a sequence of one-character strings; every regular expression *)
(* of the source is an operator that scans such a sequence the way the re  *)
(* module does (leftmost, non-overlapping, greedy or lazy as written).     *)
(* A class name is the sequence of its characters.                         *)
(***************************************************************************)
EXTENDS Naturals, Integers, Sequences, FiniteSets, TLC

(***************************************************************************)
(* Characters                                                              *)
(***************************************************************************)
Lower == {"a","b","c","d","e","f","g","h","i","j","k","l","m",
          "n","o","p","q","r","s","t","u","v","w","x","y","z"}

Upper == {"A","B","C","D","E","F","G","H","I","J","K","L","M",
          "N","O","P","Q","R","S","T","U","V","W","X","Y","Z"}

Digit == {"0","1","2","3","4","5","6","7","8","9"}

\* [a-zA-Z]
Letter == Lower \cup Upper

\* [a-zA-Z0-9_-]
IdentChar == Letter \cup Digit \cup {"_", "-"}

\* \s of Python's re on str, and the separators of str.split()
Space == {" ", "\n", "\t", "\r"}

\* The characters of the model's class names in code-point order, which is
\* the order sorted() compares str by.
CodePointOrder == <<" ", "\"", "'", "(", "-", ".",
                    "0","1","2","3","4","5","6","7","8","9", "=",
                    "A","B","C","D","E","F","G","H","I","J","K","L","M",
                    "N","O","P","Q","R","S","T","U","V","W","X","Y","Z", "_",
                    "a","b","c","d","e","f","g","h","i","j","k","l","m",
                    "n","o","p","q","r","s","t","u","v","w","x","y","z">>

Ord(c) == CHOOSE k \in 1..Len(CodePointOrder) : CodePointOrder[k] = c

(***************************************************************************)
(* Scanning primitives                                                     *)
(***************************************************************************)
\* text[i:].startswith(lit)
StartsAt(t, i, lit) ==
    /\ i >= 1
    /\ i + Len(lit) - 1 <= Len(t)
    /\ SubSeq(t, i, i + Len(lit) - 1) = lit

\* The first position >= i at which lit starts, 0 when there is none.
RECURSIVE Find(_, _, _)
Find(t, i, lit) ==
    IF i + Len(lit) - 1 > Len(t) THEN 0
    ELSE IF StartsAt(t, i, lit) THEN i
    ELSE Find(t, i + 1, lit)

\* The first position >= i whose character is not in S (Len(t)+1 when the
\* run reaches the end): the end of a greedy [S]* started at i.
RECURSIVE SkipWhile(_, _, _)
SkipWhile(t, i, S) ==
    IF i > Len(t) THEN i
    ELSE IF t[i] \in S THEN SkipWhile(t, i + 1, S)
    ELSE i

\* The first position >= i whose character is in S, Len(t)+1 when none.
RECURSIVE SkipUntil(_, _, _)
SkipUntil(t, i, S) ==
    IF i > Len(t) THEN i
    ELSE IF t[i] \in S THEN i
    ELSE SkipUntil(t, i + 1, S)

\* a in b for str
Contains(t, lit) == Find(t, 1, lit) # 0

\* str.startswith / str.endswith
StartsWith(t, lit) == StartsAt(t, 1, lit)

EndsWith(t, lit) == StartsAt(t, Len(t) - Len(lit) + 1, lit)

\* str.split(): the maximal runs of non-whitespace characters.
RECURSIVE SplitFrom(_, _)
SplitFrom(t, i) ==
    LET b == SkipWhile(t, i, Space)
        e == SkipUntil(t, b, Space)
    IN  IF b > Len(t) THEN {}
        ELSE {SubSeq(t, b, e - 1)} \cup SplitFrom(t, e)

Split(t) == SplitFrom(t, 1)

(***************************************************************************)
(* get_css_classes                                                         *)
(***************************************************************************)
\* re.sub(r"/\*.*?\*/", "", content, flags=re.DOTALL)
RECURSIVE SubBlockCommentsFrom(_, _)
SubBlockCommentsFrom(t, i) ==
    IF i > Len(t) THEN <<>>
    ELSE LET e == IF StartsAt(t, i, <<"/", "*">>)
                  THEN Find(t, i + 2, <<"*", "/">>) ELSE 0
         IN  IF e > 0 THEN SubBlockCommentsFrom(t, e + 2)
             ELSE <<t[i]>> \o SubBlockCommentsFrom(t, i + 1)

SubBlockComments(t) == SubBlockCommentsFrom(t, 1)

\* re.sub(r"//.*", "", content): "." stops at a newline, which is kept.
RECURSIVE SubLineCommentsFrom(_, _)
SubLineCommentsFrom(t, i) ==
    IF i > Len(t) THEN <<>>
    ELSE IF StartsAt(t, i, <<"/", "/">>)
         THEN SubLineCommentsFrom(t, SkipUntil(t, i + 2, {"\n"}))
         ELSE <<t[i]>> \o SubLineCommentsFrom(t, i + 1)

SubLineComments(t) == SubLineCommentsFrom(t, 1)

\* re.findall(r"\.([a-zA-Z][a-zA-Z0-9_-]*)\s*[,{]", content)
RECURSIVE FindRuleHeadsFrom(_, _)
FindRuleHeadsFrom(t, i) ==
    IF i > Len(t) THEN {}
    ELSE IF t[i] = "." /\ i + 1 <= Len(t) /\ t[i + 1] \in Letter
         THEN LET e == SkipWhile(t, i + 1, IdentChar)
                  s == SkipWhile(t, e, Space)
              IN  IF s <= Len(t) /\ t[s] \in {",", "{"}
                  THEN {SubSeq(t, i + 1, e - 1)} \cup FindRuleHeadsFrom(t, s + 1)
                  ELSE FindRuleHeadsFrom(t, i + 1)
         ELSE FindRuleHeadsFrom(t, i + 1)

FindRuleHeads(t) == FindRuleHeadsFrom(t, 1)

\* re.findall(r"\.([a-zA-Z][a-zA-Z0-9_-]*)", content)
RECURSIVE FindDotNamesFrom(_, _)
FindDotNamesFrom(t, i) ==
    IF i > Len(t) THEN {}
    ELSE IF t[i] = "." /\ i + 1 <= Len(t) /\ t[i + 1] \in Letter
         THEN LET e == SkipWhile(t, i + 1, IdentChar)
              IN  {SubSeq(t, i + 1, e - 1)} \cup FindDotNamesFrom(t, e)
         ELSE FindDotNamesFrom(t, i + 1)

FindDotNames(t) == FindDotNamesFrom(t, 1)

\* The body of get_css_classes after the file is read.
get_css_classes(content, ignore_comments) ==
    IF ignore_comments
    THEN FindRuleHeads(SubLineComments(SubBlockComments(content)))
    ELSE FindDotNames(content)

(***************************************************************************)
(* get_used_classes: the three patterns applied to one file's text         *)
(***************************************************************************)
ClassAttr == <<"c","l","a","s","s","=","\"">>

ClassNameAttr == <<"c","l","a","s","s","N","a","m","e","=","\"">>

ClassListDot == <<"c","l","a","s","s","L","i","s","t",".">>

\* ClassListMethods with toggle left out of the alternation.
ClassListMethods_NoToggle == { <<"a","d","d">>, <<"r","e","m","o","v","e">>,
                               <<"c","o","n","t","a","i","n","s">> }

ClassListMethods == { <<"a","d","d">>, <<"r","e","m","o","v","e">>,
                      <<"t","o","g","g","l","e">>,
                      <<"c","o","n","t","a","i","n","s">> }

Quotes == {"'", "\""}

\* re.findall(attr + r'([^"]*)"', content) for attr = class=" or className=":
\* the captured attribute values, scanning left to right without overlap.
RECURSIVE FindAttrValuesFrom(_, _, _)
FindAttrValuesFrom(t, i, attr) ==
    LET b == Find(t, i, attr)
        q == SkipUntil(t, b + Len(attr), {"\""})
    IN  IF b = 0 THEN {}
        ELSE IF q <= Len(t)
             THEN {SubSeq(t, b + Len(attr), q - 1)} \cup FindAttrValuesFrom(t, q + 1, attr)
             ELSE FindAttrValuesFrom(t, b + 1, attr)

FindAttrValues(t, attr) == FindAttrValuesFrom(t, 1, attr)

\* The end (the closing quote) of a match of
\* classList\.(?:add|remove|toggle|contains)\(\s*['"]([^'"]+)['"] that starts
\* at i, with the start of its group; <<0, 0>> when none starts there.
ClassListMatchAt(t, i) ==
    IF ~StartsAt(t, i, ClassListDot) THEN <<0, 0>>
    ELSE LET m  == i + Len(ClassListDot)
             ms == {x \in ClassListMethods : StartsAt(t, m, x \o <<"(">>)}
         IN  IF ms = {} THEN <<0, 0>>
             ELSE LET p  == m + Len(CHOOSE x \in ms : TRUE) + 1
                      q1 == SkipWhile(t, p, Space)
                      q2 == SkipUntil(t, q1 + 1, Quotes)
                  IN  IF q1 <= Len(t) /\ t[q1] \in Quotes
                         /\ q2 <= Len(t) /\ q2 > q1 + 1
                      THEN <<q1 + 1, q2>>
                      ELSE <<0, 0>>

\* re.findall of the classList pattern: the first string argument of each call.
RECURSIVE FindClassListArgsFrom(_, _)
FindClassListArgsFrom(t, i) ==
    IF i > Len(t) THEN {}
    ELSE LET m == ClassListMatchAt(t, i)
         IN  IF m[2] > 0
             THEN {SubSeq(t, m[1], m[2] - 1)} \cup FindClassListArgsFrom(t, m[2] + 1)
             ELSE FindClassListArgsFrom(t, i + 1)

FindClassListArgs(t) == FindClassListArgsFrom(t, 1)

\* used_classes.update(classes) for every match: the tokens of each value.
SplitAll(values) == UNION {Split(v) : v \in values}

\* FileClasses with match.split() left out: each value is added whole.
FileClasses_Unsplit(content) ==
    FindAttrValues(content, ClassAttr)
        \cup FindClassListArgs(content)
        \cup FindAttrValues(content, ClassNameAttr)

\* What one scanned file adds to used_classes (lines 84-101).
FileClasses(content) ==
    SplitAll(FindAttrValues(content, ClassAttr))
        \cup FindClassListArgs(content)
        \cup SplitAll(FindAttrValues(content, ClassNameAttr))

(***************************************************************************)
(* find_unused_classes                                                     *)
(***************************************************************************)
\* a < b for str: the first differing code point decides, a proper prefix
\* is smaller.
RECURSIVE StrLess(_, _)
StrLess(a, b) ==
    IF b = <<>> THEN FALSE
    ELSE IF a = <<>> THEN TRUE
    ELSE IF a[1] = b[1] THEN StrLess(Tail(a), Tail(b))
    ELSE Ord(a[1]) < Ord(b[1])

\* sorted(S) of a set of str
RECURSIVE Sorted(_)
Sorted(S) ==
    IF S = {} THEN <<>>
    ELSE LET m == CHOOSE x \in S : \A y \in S \ {x} : StrLess(x, y)
         IN  <<m>> \o Sorted(S \ {m})

\* find_unused_classes with the subtraction of the used classes left out.
find_unused_classes_NoSubtraction(css_classes, used_classes) == Sorted(css_classes)

\* unused = css_classes - used_classes; return sorted(unused)
find_unused_classes(css_classes, used_classes) == Sorted(css_classes \ used_classes)

(***************************************************************************)
(* remove_unused_from_css: the rewriting of the text                       *)
(***************************************************************************)
\* The closing brace of a match of rf"\s*\.{re.escape(cls)}\s*{{[^}}]*}}"
\* that starts at i, 0 when none starts there.
RuleMatchEnd(t, i, cls) ==
    LET d == SkipWhile(t, i, Space)
        b == SkipWhile(t, d + 1 + Len(cls), Space)
        c == SkipUntil(t, b + 1, {"}"})
    IN  IF StartsAt(t, d, <<".">> \o cls) /\ b <= Len(t) /\ t[b] = "{" /\ c <= Len(t)
        THEN c ELSE 0

\* content = re.sub(pattern, "", content, flags=re.MULTILINE | re.DOTALL)
RECURSIVE SubRuleFrom(_, _, _)
SubRuleFrom(t, i, cls) ==
    IF i > Len(t) THEN <<>>
    ELSE LET e == RuleMatchEnd(t, i, cls)
         IN  IF e > 0 THEN SubRuleFrom(t, e + 1, cls)
             ELSE <<t[i]>> \o SubRuleFrom(t, i + 1, cls)

SubRule(t, cls) == SubRuleFrom(t, 1, cls)

\* for cls in unused: content = re.sub(...)
RECURSIVE RemoveRules(_, _)
RemoveRules(t, unused_seq) ==
    IF unused_seq = <<>> THEN t
    ELSE RemoveRules(SubRule(t, Head(unused_seq)), Tail(unused_seq))

(***************************************************************************)
(* print_unused_analysis                                                   *)
(***************************************************************************)
\* One printed line: kind says which print() call wrote it.
Line(kind, n, cat, name) == [kind |-> kind, n |-> n, cat |-> cat, name |-> name]

\* sorted(classes) of a list of str (insertion into the sorted tail).
RECURSIVE InsertSorted(_, _)
InsertSorted(x, s) ==
    IF s = <<>> THEN <<x>>
    ELSE IF StrLess(Head(s), x) THEN <<Head(s)>> \o InsertSorted(x, Tail(s))
    ELSE <<x>> \o s

RECURSIVE SortedList(_)
SortedList(s) == IF s = <<>> THEN <<>> ELSE InsertSorted(Head(s), SortedList(Tail(s)))

BtnPrefix     == <<"b","t","n","-">>
CardPrefix    == <<"c","a","r","d">>
ContentPrefix == <<"c","o","n","t","e","n","t","-">>
FormPrefix    == <<"f","o","r","m","-">>
FeaturePrefix == <<"f","e","a","t","u","r","e","-">>
FaqPrefix     == <<"f","a","q","-">>
FooterPrefix  == <<"f","o","o","t","e","r">>
NavPrefix     == <<"n","a","v">>
SectionPrefix == <<"s","e","c","t","i","o","n">>
AnimWord      == <<"a","n","i","m">>
FadeWord      == <<"f","a","d","e">>
SlideWord     == <<"s","l","i","d","e">>

\* The test of each category's list comprehension, in the dict's order.
CategoryNames == <<"buttons", "cards", "content", "forms", "features", "faq",
                   "footer", "navigation", "sections", "animations", "other">>

InCategory(cat, cls) ==
    CASE cat = "buttons"    -> StartsWith(cls, BtnPrefix)
      [] cat = "cards"      -> StartsWith(cls, CardPrefix)
      [] cat = "content"    -> StartsWith(cls, ContentPrefix)
      [] cat = "forms"      -> StartsWith(cls, FormPrefix)
      [] cat = "features"   -> StartsWith(cls, FeaturePrefix)
      [] cat = "faq"        -> StartsWith(cls, FaqPrefix)
      [] cat = "footer"     -> StartsWith(cls, FooterPrefix)
      [] cat = "navigation" -> StartsWith(cls, NavPrefix)
      [] cat = "sections"   -> StartsWith(cls, SectionPrefix)
      [] cat = "animations" -> Contains(cls, AnimWord) \/ Contains(cls, FadeWord)
                                   \/ Contains(cls, SlideWord)
      [] OTHER              -> FALSE

\* The catch-all list after the loop of lines 175-182: each class found in
\* no list so far (the ten comprehensions and the catch-all as built up to it).
RECURSIVE OtherClasses(_, _)
OtherClasses(unused_list, acc) ==
    IF unused_list = <<>> THEN acc
    ELSE LET cls   == Head(unused_list)
             found == \/ \E k \in 1..Len(CategoryNames) : InCategory(CategoryNames[k], cls)
                      \/ \E k \in 1..Len(acc) : acc[k] = cls
         IN  OtherClasses(Tail(unused_list), IF found THEN acc ELSE Append(acc, cls))

\* categories[cat] when the printing starts.
CategoryClasses(cat, unused_list) ==
    LET InCat(cls) == InCategory(cat, cls)
    IN  IF cat = "other" THEN OtherClasses(unused_list, <<>>)
        ELSE SelectSeq(unused_list, InCat)

\* The lines of one category (lines 184-188): nothing when it is empty.
CategoryLines(cat, unused_list) ==
    LET classes == SortedList(CategoryClasses(cat, unused_list))
    IN  IF classes = <<>> THEN <<>>
        ELSE <<Line("category", 0, cat, <<>>)>>
                 \o [k \in 1..Len(classes) |-> Line("cls", 0, cat, classes[k])]

RECURSIVE AllCategoryLines(_, _)
AllCategoryLines(k, unused_list) ==
    IF k > Len(CategoryNames) THEN <<>>
    ELSE CategoryLines(CategoryNames[k], unused_list) \o AllCategoryLines(k + 1, unused_list)

\* Everything print_unused_analysis(unused) prints.
print_unused_analysis(unused_list) ==
    IF unused_list = <<>> THEN <<Line("all_used", 0, "", <<>>)>>
    ELSE <<Line("found", Len(unused_list), "", <<>>)>>
             \o AllCategoryLines(1, unused_list)
             \o <<Line("total", Len(unused_list), "", <<>>)>>

(***************************************************************************)
(* The file system and expand_search_paths                                 *)
(***************************************************************************)
\* A path is the sequence of its components, a component the sequence of its
\* characters.  Paths are relative to WEBSITE_ROOT/src.
HtmlExt == <<".","h","t","m","l">>
JsExt   == <<".","j","s">>
CssExt  == <<".","c","s","s">>

\* DEFAULT_CSS_FILE: src/input.css
CssFile == << <<"i","n","p","u","t">> \o CssExt >>

IndexHtml   == << <<"i","n","d","e","x">> \o HtmlExt >>
PartialsDir == << <<"p","a","r","t","i","a","l","s">> >>
NavHtml     == PartialsDir \o << <<"n","a","v">> \o HtmlExt >>
OldCss      == PartialsDir \o << <<"o","l","d">> \o CssExt >>
SubDir      == PartialsDir \o << <<"s","u","b">> >>
MenuJs      == SubDir \o << <<"m","e","n","u">> \o JsExt >>
CommonJs    == << <<"c","o","m","m","o","n">> \o JsExt >>
HtmlGlob    == << <<"*">> \o HtmlExt >>

\* DEFAULT_SEARCH_PATHS: src/*.html, src/partials, src/common.js
DEFAULT_SEARCH_PATHS == <<HtmlGlob, PartialsDir, CommonJs>>

\* Every path the model's file system can hold.
AllPaths == {CssFile, IndexHtml, PartialsDir, NavHtml, OldCss, SubDir, MenuJs, CommonJs}

UsageFiles == {IndexHtml, NavHtml, OldCss, MenuJs, CommonJs}

NoNode == [kind |-> "none", content |-> <<>>]

DirNode == [kind |-> "dir", content |-> <<>>]

FileNode(text) == [kind |-> "file", content |-> text]

\* os.path.isfile, os.path.isdir, os.path.exists
isfile(f, p) == p \in DOMAIN f /\ f[p].kind = "file"

isdir(f, p) == p \in DOMAIN f /\ f[p].kind = "dir"

exists(f, p) == p \in DOMAIN f /\ f[p].kind # "none"

\* fnmatch of one component against a pattern with * and ?
RECURSIVE FnMatch(_, _)
FnMatch(name, pat) ==
    IF pat = <<>> THEN name = <<>>
    ELSE IF Head(pat) = "*"
         THEN FnMatch(name, Tail(pat)) \/ (name # <<>> /\ FnMatch(Tail(name), pat))
    ELSE IF name = <<>> THEN FALSE
    ELSE (Head(pat) = "?" \/ Head(pat) = Head(name)) /\ FnMatch(Tail(name), Tail(pat))

\* "*" in path or "?" in path
HasMagic(path) == \E k \in 1..Len(path) : \E j \in 1..Len(path[k]) : path[k][j] \in {"*", "?"}

\* glob matches nothing hidden (a leading dot) unless the pattern names the dot.
GlobComponent(name, pat) ==
    /\ FnMatch(name, pat)
    /\ (name # <<>> /\ Head(name) = ".") => (pat # <<>> /\ Head(pat) = ".")

\* A sequence holding the elements of a finite set, in a fixed order.
RECURSIVE SetToSeq(_)
SetToSeq(S) ==
    IF S = {} THEN <<>>
    ELSE LET x == CHOOSE y \in S : TRUE IN <<x>> \o SetToSeq(S \ {x})

\* glob.glob(pattern): the existing paths that match component by component.
glob(f, pattern) ==
    SetToSeq({p \in DOMAIN f :
                /\ exists(f, p)
                /\ Len(p) = Len(pattern)
                /\ \A k \in 1..Len(p) : GlobComponent(p[k], pattern[k])})

RECURSIVE expand_search_paths(_, _)
expand_search_paths(f, paths) ==
    IF paths = <<>> THEN <<>>
    ELSE (IF HasMagic(Head(paths)) THEN glob(f, Head(paths)) ELSE <<Head(paths)>>)
             \o expand_search_paths(f, Tail(paths))

\* p lies under the directory d, every directory between them existing.
Under(f, d, p) ==
    /\ Len(p) > Len(d)
    /\ SubSeq(p, 1, Len(d)) = d
    /\ \A k \in Len(d)..(Len(p) - 1) : isdir(f, SubSeq(p, 1, k))

\* RecognizedName with the extension test left out.
RecognizedName_AnyName(name) == TRUE

\* file.endswith((".html", ".js"))
RecognizedName(name) == EndsWith(name, HtmlExt) \/ EndsWith(name, JsExt)

\* The files os.walk(item) yields that pass the extension test (lines 74-77).
WalkFiles(f, item) ==
    SetToSeq({p \in DOMAIN f :
                isfile(f, p) /\ Under(f, item, p) /\ RecognizedName(p[Len(p)])})

\* What one expanded_paths path adds to files_to_check (lines 71-77).
DiscoverItem(f, item) ==
    IF isfile(f, item) THEN <<item>>
    ELSE IF isdir(f, item) THEN WalkFiles(f, item)
    ELSE <<>>

(***************************************************************************)
(* State                                                                   *)
(***************************************************************************)
VARIABLES
    fs,             \* the files on disk: path -> node
    search_paths,   \* the search_paths argument of the calls
    op,             \* the function being run: "none", "find", "remove", "report"
    pc,             \* where the running call stands
    ign,            \* the ignore_comments argument of find_unused_classes
    css_classes,    \* find_unused_classes: css_classes
    expanded_paths,       \* get_used_classes: expanded_paths
    files_to_check, \* get_used_classes: files_to_check
    idx,            \* the index of the running for loop
    used_classes,   \* get_used_classes: used_classes
    unused,         \* the list find_unused_classes returned
    content,        \* remove_unused_from_css: content
    out,            \* the lines the call has printed
    writes,         \* the paths the call has opened for writing
    raised,         \* the function whose open() raised, "" when none did
    hist,           \* what the completed remove_unused_from_css calls left
    deletes         \* how many files were deleted while the tool ran

vars == <<fs, search_paths, op, pc, ign, css_classes, expanded_paths, files_to_check,
          idx, used_classes, unused, content, out, writes, raised, hist, deletes>>

locals == <<css_classes, expanded_paths, files_to_check, idx, used_classes, content>>

NoHist == [n |-> 0, origin |-> <<>>, prev |-> <<>>, before |-> <<>>, after |-> <<>>,
           unused |-> <<>>]

\* No call is running: a new one may start.
Returned == pc \in {"idle", "done", "raised"}

\* The state a call starts from: nothing is retained from the call before.
StartCall(o, ic) ==
    /\ Returned
    /\ op' = o
    /\ ign' = ic
    /\ pc' = "css"
    /\ css_classes' = {}
    /\ expanded_paths' = <<>>
    /\ files_to_check' = <<>>
    /\ idx' = 0
    /\ used_classes' = {}
    /\ unused' = <<>>
    /\ content' = <<>>
    /\ out' = <<>>
    /\ writes' = <<>>
    /\ raised' = ""
    /\ UNCHANGED <<fs, search_paths, hist, deletes>>

(***************************************************************************)
(* find_unused_classes(css_file, search_paths, ignore_comments)            *)
(***************************************************************************)
CallFind(ic) == StartCall("find", ic)

\* get_css_classes (lines 28-43): open() raises when the stylesheet is missing.
GetCssClasses ==
    /\ pc = "css"
    /\ IF isfile(fs, CssFile)
       THEN /\ css_classes' = get_css_classes(fs[CssFile].content, ign)
            /\ pc' = "expand"
            /\ raised' = raised
       ELSE /\ css_classes' = css_classes
            /\ pc' = "raised"
            /\ raised' = "get_css_classes"
    /\ UNCHANGED <<fs, search_paths, op, ign, expanded_paths, files_to_check, idx,
                   used_classes, unused, content, out, writes, hist, deletes>>

\* expand_search_paths (line 65)
ExpandSearchPaths ==
    /\ pc = "expand"
    /\ expanded_paths' = expand_search_paths(fs, search_paths)
    /\ idx' = 1
    /\ pc' = IF expanded_paths' = <<>> THEN "diff" ELSE "discover"
    /\ UNCHANGED <<fs, search_paths, op, ign, css_classes, files_to_check,
                   used_classes, unused, content, out, writes, raised, hist, deletes>>

\* One round of the loop of lines 70-77.
Discover ==
    /\ pc = "discover"
    /\ files_to_check' = files_to_check \o DiscoverItem(fs, expanded_paths[idx])
    /\ IF idx < Len(expanded_paths)
       THEN idx' = idx + 1 /\ pc' = pc
       ELSE idx' = 1 /\ pc' = IF files_to_check' = <<>> THEN "diff" ELSE "exists"
    /\ UNCHANGED <<fs, search_paths, op, ign, css_classes, expanded_paths,
                   used_classes, unused, content, out, writes, raised, hist, deletes>>

\* Where the loop of lines 79-101 goes after the file at idx.
NextFile ==
    IF idx < Len(files_to_check)
    THEN idx' = idx + 1 /\ pc' = "exists"
    ELSE idx' = idx /\ pc' = "diff"

\* if os.path.exists(file_path) (line 80)
CheckExists ==
    /\ pc = "exists"
    /\ IF exists(fs, files_to_check[idx])
       THEN idx' = idx /\ pc' = "open"
       ELSE NextFile
    /\ UNCHANGED <<fs, search_paths, op, ign, css_classes, expanded_paths, files_to_check,
                   used_classes, unused, content, out, writes, raised, hist, deletes>>

\* open, read and scan the file (lines 81-101): open() raises when it is gone.
ScanFile ==
    /\ pc = "open"
    /\ IF isfile(fs, files_to_check[idx])
       THEN /\ used_classes' = used_classes \cup FileClasses(fs[files_to_check[idx]].content)
            /\ NextFile
            /\ raised' = raised
       ELSE /\ used_classes' = used_classes
            /\ idx' = idx
            /\ pc' = "raised"
            /\ raised' = "get_used_classes"
    /\ UNCHANGED <<fs, search_paths, op, ign, css_classes, expanded_paths, files_to_check,
                   unused, content, out, writes, hist, deletes>>

\* unused = css_classes - used_classes; return sorted(unused) (lines 114-115)
Diff ==
    /\ pc = "diff"
    /\ unused' = find_unused_classes(css_classes, used_classes)
    /\ pc' = IF op = "remove" THEN "rm_check" ELSE "done"
    /\ UNCHANGED <<fs, search_paths, op, ign, locals, out, writes, raised, hist, deletes>>

(***************************************************************************)
(* remove_unused_from_css(css_file, search_paths)                          *)
(***************************************************************************)
\* line 120: find_unused_classes(css_file, search_paths, ignore_comments=False)
CallRemove == StartCall("remove", FALSE)

\* What a completed call leaves in hist: how many calls completed in
\* succession (2 for two or more), the text the call before this one started
\* from and the text it left, the text this call started from and the text
\* it left, and the list this call found.
Completed(before, after) ==
    [n      |-> IF hist.n < 2 THEN hist.n + 1 ELSE 2,
     origin |-> hist.before,
     prev   |-> hist.after,
     before |-> before,
     after  |-> after,
     unused |-> unused]

\* RemoveReport with the early return of lines 122-124 left out.
RemoveReport_NoEarlyReturn ==
    /\ pc = "rm_check"
    /\ out' = <<Line("found", Len(unused), "", <<>>)>>
                   \o [k \in 1..Len(unused) |-> Line("cls", 0, "", unused[k])]
    /\ pc' = "rm_read"
    /\ UNCHANGED <<fs, search_paths, op, ign, locals, unused, writes, raised, hist, deletes>>

\* lines 122-128: the early return, or the list of what will be removed.
RemoveReport ==
    /\ pc = "rm_check"
    /\ IF unused = <<>>
       THEN /\ out' = <<Line("none_found", 0, "", <<>>)>>
            /\ pc' = "done"
            /\ hist' = Completed(fs[CssFile].content, fs[CssFile].content)
       ELSE /\ out' = <<Line("found", Len(unused), "", <<>>)>>
                          \o [k \in 1..Len(unused) |-> Line("cls", 0, "", unused[k])]
            /\ pc' = "rm_read"
            /\ hist' = hist
    /\ UNCHANGED <<fs, search_paths, op, ign, locals, unused, writes, raised, deletes>>

\* lines 131-139: read the stylesheet and delete the rules from the text.
RemoveRewrite ==
    /\ pc = "rm_read"
    /\ IF isfile(fs, CssFile)
       THEN /\ content' = RemoveRules(fs[CssFile].content, unused)
            /\ pc' = "rm_write"
            /\ raised' = raised
       ELSE /\ content' = content
            /\ pc' = "raised"
            /\ raised' = "remove_unused_from_css"
    /\ UNCHANGED <<fs, search_paths, op, ign, css_classes, expanded_paths, files_to_check,
                   idx, used_classes, unused, out, writes, hist, deletes>>

\* lines 142-145: write the text back and report.
RemoveWrite ==
    /\ pc = "rm_write"
    /\ fs' = [fs EXCEPT ![CssFile] = FileNode(content)]
    /\ writes' = Append(writes, CssFile)
    /\ out' = Append(out, Line("removed", Len(unused), "", <<>>))
    /\ pc' = "done"
    /\ hist' = Completed(fs[CssFile].content, content)
    /\ UNCHANGED <<search_paths, op, ign, locals, unused, raised, deletes>>

(***************************************************************************)
(* print_unused_analysis(unused), called on what find_unused_classes       *)
(* returned (show_unused_styles.py)                                        *)
(***************************************************************************)
CallReport ==
    /\ op = "find" /\ pc = "done"
    /\ op' = "report"
    /\ out' = print_unused_analysis(unused)
    /\ UNCHANGED <<fs, search_paths, pc, ign, locals, unused, writes, raised, hist, deletes>>

(***************************************************************************)
(* The environment: a usage file is deleted while the tool runs            *)
(***************************************************************************)
MaxDeletes == 1

DeleteFile(p) ==
    /\ deletes < MaxDeletes
    /\ ~Returned
    /\ isfile(fs, p)
    /\ fs' = [fs EXCEPT ![p] = NoNode]
    /\ deletes' = deletes + 1
    /\ hist' = NoHist
    /\ UNCHANGED <<search_paths, op, pc, ign, locals, unused, out, writes, raised>>

FindSteps == GetCssClasses \/ ExpandSearchPaths \/ Discover \/ CheckExists \/ ScanFile \/ Diff

RemoveSteps == RemoveReport \/ RemoveRewrite \/ RemoveWrite

(***************************************************************************)
(* Inputs: bounded sets of stylesheet and markup texts                     *)
(***************************************************************************)
\* Every concatenation of at most n of the parts.
RECURSIVE Concats(_, _)
Concats(parts, n) ==
    IF n = 0 THEN {<<>>}
    ELSE LET shorter == Concats(parts, n - 1)
         IN  shorter \cup {s \o p : s \in shorter, p \in parts}

\* The file system with the stylesheet and one markup file, src/index.html.
TwoFiles(css, markup) ==
    [p \in AllPaths |-> IF p = CssFile THEN FileNode(css)
                        ELSE IF p = IndexHtml THEN FileNode(markup)
                        ELSE NoNode]

InitCall ==
    /\ op = "none"
    /\ pc = "idle"
    /\ ign = TRUE
    /\ css_classes = {}
    /\ expanded_paths = <<>>
    /\ files_to_check = <<>>
    /\ idx = 0
    /\ used_classes = {}
    /\ unused = <<>>
    /\ content = <<>>
    /\ out = <<>>
    /\ writes = <<>>
    /\ raised = ""
    /\ hist = NoHist
    /\ deletes = 0

\* Stylesheets: rules, bare selectors, the comma of a selector list, a
\* rule body, white space, a rule inside a comment.
MaxCssParts == 3

CssParts == { <<".","a","{","x","}">>, <<".","b","{","x","}">>, <<".","a">>, <<".","b">>, <<",">>, <<"{","x","}">>, <<" ">>, <<"/","*",".","b","{","x","}","*","/">> }

MarkupChoices == { <<>>, <<"c","l","a","s","s","=","\"","a","\"">>, <<"<","p"," ","c","l","a","s","s","=","\"","a"," ","b","\"",">">> }

Init ==
    /\ \E css \in Concats(CssParts, MaxCssParts), m \in MarkupChoices : fs = TwoFiles(css, m)
    /\ search_paths = DEFAULT_SEARCH_PATHS
    /\ InitCall

Next ==
    \/ \E ic \in BOOLEAN : CallFind(ic)
    \/ CallRemove
    \/ CallReport
    \/ FindSteps
    \/ RemoveSteps

Spec == Init /\ [][Next]_vars

\* The selector extractor on stylesheets with comments.
MaxSelectorParts == 5

SelectorParts == { <<".">>, <<"a">>, <<"{">>, <<",">>, <<" ">>, <<"/","*">>, <<"*","/">>, <<"/","/">>, <<"\n">> }

InitSelector ==
    /\ \E css \in Concats(SelectorParts, MaxSelectorParts) : fs = TwoFiles(css, <<>>)
    /\ search_paths = <<IndexHtml>>
    /\ InitCall

NextFind ==
    \/ \E ic \in BOOLEAN : CallFind(ic)
    \/ FindSteps

SpecSelector == InitSelector /\ [][NextFind]_vars

\* The usage extractor on markup and script texts.
MaxMarkupParts == 3

MarkupParts == { <<"<","p"," ","c","l","a","s","s","=","\"","a"," ","b","\"",">">>, <<"c","l","a","s","s","=","\"">>, <<"c","l","a","s","s","N","a","m","e","=","\"">>, <<"\"">>, <<"'">>, <<"a">>, <<" ","b">>,
                 <<"c","l","a","s","s","L","i","s","t",".","t","o","g","g","l","e","(","'">>, <<"c","l","a","s","s","L","i","s","t",".","a","d","d","("," ","\"">>, <<"c","l","a","s","s","L","i","s","t",".","r","e","m","o","v","e","(">> }

StylesheetAB == <<".","a","{","x","}",".","b","{","x","}">>

InitMarkup ==
    /\ \E m \in Concats(MarkupParts, MaxMarkupParts) : fs = TwoFiles(StylesheetAB, m)
    /\ search_paths = <<IndexHtml>>
    /\ InitCall

SpecMarkup == InitMarkup /\ [][NextFind]_vars

\* The report on stylesheets of rules whose names are built from the words
\* the categories test for.
NameWords == { BtnPrefix, CardPrefix, ContentPrefix, FormPrefix, FeaturePrefix,
               FaqPrefix, FooterPrefix, NavPrefix, SectionPrefix,
               AnimWord, FadeWord, SlideWord, <<"x">> }

\* A word, or a word followed by a word no prefix test looks at.
ReportNames == NameWords \cup {w \o v : w \in NameWords, v \in {FadeWord, <<"x">>}}

MaxReportRules == 2

Rule(name) == <<".">> \o name \o <<"{", "}">>

ReportRules == {Rule(n) : n \in ReportNames}

InitReport ==
    /\ \E css \in Concats(ReportRules, MaxReportRules), m \in {<<>>, <<"c","l","a","s","s","=","\"","x","\"">>} :
           fs = TwoFiles(css, m)
    /\ search_paths = DEFAULT_SEARCH_PATHS
    /\ InitCall

NextReport ==
    \/ \E ic \in BOOLEAN : CallFind(ic)
    \/ FindSteps
    \/ CallReport

SpecReport == InitReport /\ [][NextReport]_vars

\* The usage extractor on a tree of files, some of which are deleted while
\* it runs.
StylesheetAF == <<".","a","{","x","}",".","b","{","x","}",".","c","{","x","}",".","d","{","x","}",".","e","{","x","}",".","f","{","x","}">>

FileText(p) ==
    CASE p = IndexHtml -> <<"<","p"," ","c","l","a","s","s","=","\"","a"," ","b","\"",">">>
      [] p = NavHtml   -> <<"<","i"," ","c","l","a","s","s","N","a","m","e","=","\"","c","\"",">">>
      [] p = MenuJs    -> <<"e","l",".","c","l","a","s","s","L","i","s","t",".","t","o","g","g","l","e","(","'","d","'",")">>
      [] p = CommonJs  -> <<"e","l",".","c","l","a","s","s","L","i","s","t",".","a","d","d","(","\"","e","\"",")">>
      [] p = OldCss    -> <<".","f","{","x","}"," ","c","l","a","s","s","=","\"","f","\""," ","c","l","a","s","s","L","i","s","t",".","a","d","d","(","'","f","'",")">>
      [] OTHER         -> StylesheetAF

Tree(present) ==
    [p \in AllPaths |-> IF p \in {PartialsDir, SubDir} THEN DirNode
                        ELSE IF p \in present THEN FileNode(FileText(p))
                        ELSE NoNode]

SearchPathChoices == { DEFAULT_SEARCH_PATHS, <<PartialsDir>>, <<PartialsDir, OldCss>> }

InitRace ==
    /\ \E present \in SUBSET (UsageFiles \cup {CssFile}) : fs = Tree(present)
    /\ search_paths \in SearchPathChoices
    /\ InitCall

NextRace ==
    \/ \E ic \in BOOLEAN : CallFind(ic)
    \/ FindSteps
    \/ \E p \in UsageFiles : DeleteFile(p)

SpecRace == InitRace /\ [][NextRace]_vars


(***************************************************************************)
(* Properties                                                              *)
(***************************************************************************)
Range(s) == {s[k] : k \in 1..Len(s)}

FindDone == op = "find" /\ pc = "done"

RemoveDone == op = "remove" /\ pc = "done"

\* A stylesheet of class rules: every brace opens or closes a rule block that
\* is not nested, every block follows a selector, and the text ends with a block.
RECURSIVE BracesPaired(_, _, _)
BracesPaired(t, i, inside) ==
    IF i > Len(t) THEN ~inside
    ELSE IF t[i] = "{" THEN ~inside /\ BracesPaired(t, i + 1, TRUE)
    ELSE IF t[i] = "}" THEN inside /\ BracesPaired(t, i + 1, FALSE)
    ELSE BracesPaired(t, i + 1, inside)

IsRuleSheet(t) ==
    /\ t # <<>>
    /\ t[1] = "."
    /\ t[Len(t)] = "}"
    /\ BracesPaired(t, 1, FALSE)
    /\ \A i \in 2..Len(t) : t[i] = "{" => t[i - 1] \in IdentChar
    /\ \A i \in 1..(Len(t) - 1) : t[i] = "}" => t[i + 1] = "."

\* C1: running remove_unused twice in succession, the usage files unchanged,
\* leaves the stylesheet after the second run identical to the text after
\* the first run, and the second run finds an empty unused set.
C1_RemoveIdempotent ==
    (hist.n = 2 /\ IsRuleSheet(hist.origin)) =>
        (hist.after = hist.prev /\ hist.unused = <<>>)

\* C2: the classes the selector extractor returns with comment exclusion
\* enabled are a subset of those it returns on the same text with comment
\* exclusion disabled.
C2_ExcludedSubsetOfIncluded ==
    (FindDone /\ ign) => css_classes \subseteq get_css_classes(fs[CssFile].content, FALSE)

\* C3: find_unused returns exactly N-M names (N the distinct classes of the
\* stylesheet, M those of them some scanned file references), as a sorted
\* duplicate-free sequence equal to SelectorSet minus UsageSet, none of
\* which occurs in a scanned file.
C3_FindUnusedIsDifference ==
    FindDone =>
        /\ \A i, j \in 1..Len(unused) : i < j => StrLess(unused[i], unused[j])
        /\ Range(unused) = css_classes \ used_classes
        /\ Len(unused) = Cardinality(css_classes) - Cardinality(css_classes \cap used_classes)
        /\ \A p \in Range(files_to_check) :
               Range(unused) \cap FileClasses(fs[p].content) = {}

C3_Witness ==
    /\ FindDone
    /\ Len(unused) >= 1
    /\ css_classes \cap used_classes # {}

\* The class cls heads a rule of t: its selector stands before the block or
\* before the comma of a selector list.
HeadsRule(t, cls) ==
    \E i \in 1..Len(t) :
        /\ StartsAt(t, i, <<".">> \o cls)
        /\ LET s == SkipWhile(t, i + 1 + Len(cls), Space)
           IN  s <= Len(t) /\ t[s] \in {",", "{"}

\* The rule blocks of t headed by cls: from the selector to the closing brace.
RuleBlocks(t, cls) ==
    {SubSeq(t, i, e) : <<i, e>> \in
        {x \in (1..Len(t)) \X (1..Len(t)) :
            /\ StartsAt(t, x[1], <<".">> \o cls)
            /\ x[1] + Len(cls) < Len(t)
            /\ t[x[1] + Len(cls) + 1] \notin IdentChar
            /\ x[2] = SkipUntil(t, x[1], {"}"})}}

\* C4: after remove_unused on a stylesheet of class rules, every rule block
\* headed by a class of the unused set has been removed, and every rule
\* block headed by a class the usage files reference is still present with
\* its text unchanged.
C4_OnlyUnusedRulesRemoved ==
    (RemoveDone /\ IsRuleSheet(hist.before)) =>
        /\ \A cls \in Range(unused) : ~HeadsRule(hist.after, cls)
        /\ \A cls \in used_classes :
               RuleBlocks(hist.before, cls) \subseteq RuleBlocks(hist.after, cls)

\* C5: a file discovered for usage scanning that disappears at any moment
\* before it is read is skipped: the usage extractor does not fail.
C5_VanishedFileSkipped ==
    raised # "get_used_classes"

\* The lines of out that name a class.
ClassLines == SelectSeq(out, LAMBDA l : l.kind = "cls")

\* C6: print_report puts every unused class name in exactly one bucket, so
\* the number of class lines equals the printed total, and prints the names
\* of each bucket in ascending order.
C6_ReportPartitions ==
    (op = "report" /\ unused # <<>>) =>
        /\ \A k \in 1..Len(unused) :
               Cardinality({j \in 1..Len(out) :
                               out[j].kind = "cls" /\ out[j].name = unused[k]}) = 1
        /\ Len(ClassLines) = out[Len(out)].n
        /\ \A j \in 1..(Len(out) - 1) :
               (out[j].kind = "cls" /\ out[j + 1].kind = "cls")
                   => StrLess(out[j].name, out[j + 1].name)

\* The attributes attr"..." of t as <<b, q>>: attr opens at b and the next
\* double quote, which closes the value, stands at q.
Attrs(t, attr) ==
    {<<b, SkipUntil(t, b + Len(attr), {"\""})>> : b \in
        {i \in 1..Len(t) :
            StartsAt(t, i, attr) /\ SkipUntil(t, i + Len(attr), {"\""}) <= Len(t)}}

\* Those no attribute of the same name that opens before them runs into.
CleanAttrs(t, attr) ==
    {x \in Attrs(t, attr) : \A y \in Attrs(t, attr) : ~(y[1] < x[1] /\ x[1] <= y[2])}

\* The white-space separated tokens of t[lo..hi].
TokensOf(t, lo, hi) ==
    {SubSeq(t, i, SkipUntil(SubSeq(t, 1, hi), i, Space) - 1) : i \in
        {k \in lo..hi : t[k] \notin Space /\ (k = lo \/ t[k - 1] \in Space)}}

AttrTokens(t, attr) ==
    UNION {TokensOf(t, x[1] + Len(attr), x[2] - 1) : x \in CleanAttrs(t, attr)}

\* The texts that stand between a quote that follows an opening parenthesis
\* and the next quote: what a string argument of a call can be.
QuotedArgs(t) ==
    {SubSeq(t, q + 1, SkipUntil(t, q + 1, Quotes) - 1) : q \in
        {k \in 1..Len(t) :
            /\ t[k] \in Quotes
            /\ SkipUntil(t, k + 1, Quotes) <= Len(t)
            /\ \E j \in 1..(k - 1) :
                   t[j] = "(" /\ \A h \in (j + 1)..(k - 1) : t[h] \in Space}}

\* C7: each white-space separated token of every class="..." and
\* className="..." value of a scanned file is an element of the UsageSet of
\* its own; the attribute values are never added unsplit.
C7_AttributeTokensSeparate ==
    FindDone =>
        LET t == fs[IndexHtml].content
        IN  /\ AttrTokens(t, ClassAttr) \subseteq used_classes
            /\ AttrTokens(t, ClassNameAttr) \subseteq used_classes
            /\ \A cls \in used_classes \ QuotedArgs(t) : \A k \in 1..Len(cls) : cls[k] \notin Space

C7_Witness ==
    /\ FindDone
    /\ Contains(fs[IndexHtml].content, <<"c","l","a","s","s","=","\"","a"," ","b","\"">>)
    /\ {<<"a">>, <<"b">>} \subseteq used_classes

CallMethods == { <<"a","d","d">>, <<"r","e","m","o","v","e">>,
                 <<"t","o","g","g","l","e">>, <<"c","o","n","t","a","i","n","s">> }

\* The calls classList.<method>(<spaces><quote>...<quote> of t as
\* <<i, q1, q2>>: the call opens at i, its first argument between the quote
\* at q1 and the next quote at q2, and is not empty.
ClassListCalls(t) ==
    UNION {{<<i, SkipWhile(t, i + Len(ClassListDot) + Len(m) + 1, Space),
              SkipUntil(t, SkipWhile(t, i + Len(ClassListDot) + Len(m) + 1, Space) + 1, Quotes)>> :
            i \in {k \in 1..Len(t) : StartsAt(t, k, ClassListDot \o m \o <<"(">>)}} :
           m \in CallMethods}

WellFormedCalls(t) ==
    {x \in ClassListCalls(t) :
        /\ x[3] <= Len(t)
        /\ x[2] + 1 < x[3]
        /\ t[x[2]] \in Quotes}

\* The string literals that are the first argument of a classList call no
\* earlier call runs into.
ClassListLiterals(t) ==
    {SubSeq(t, x[2] + 1, x[3] - 1) : x \in
        {y \in WellFormedCalls(t) :
            /\ t[y[2]] = t[y[3]]
            /\ \A z \in WellFormedCalls(t) : ~(z[1] < y[1] /\ y[1] <= z[3])}}

Logged(lines, names) ==
    /\ \E k \in 1..Len(lines) : lines[k].kind = "found" /\ lines[k].n = Len(names)
    /\ \A i \in 1..Len(names) :
           \E k \in 1..Len(lines) : lines[k].kind = "cls" /\ lines[k].name = names[i]

\* C10: find_unused and print_report write no file; remove_unused writes at
\* most once per call, only the stylesheet, never a usage file, and not at
\* all when the unused set is empty (it returns after the message); when it
\* writes, the unused names and their count have been printed before.
C10_WriteFootprint ==
    [][ /\ op' \in {"find", "report"} => (fs' = fs /\ writes' = <<>>)
        /\ \A p \in AllPaths \ {CssFile} : fs'[p] = fs[p]
        /\ fs' # fs => (op = "remove" /\ writes' = Append(writes, CssFile))
        /\ Len(writes') <= 1
        /\ (op' = "remove" /\ pc' = "done" /\ unused' = <<>>) =>
               /\ writes' = <<>>
               /\ fs' = fs
               /\ out' = <<Line("none_found", 0, "", <<>>)>>
        /\ writes' # writes => (unused # <<>> /\ Logged(out, unused))
      ]_vars

C10_Witness ==
    /\ RemoveDone
    /\ writes = <<CssFile>>
    /\ Len(out) >= 3
    /\ fs[CssFile].content # hist.before

====
